---- MODULE Spec2Model ----
(***************************************************************************)
(* Auto Node CLI (src/auto_node_cli.py): CustomNodeInstaller and main.     *)
(*                                                                         *)
(* Text is modelled as a sequence of one-character strings; a few fixed    *)
(* multi-character literals of the program (message texts, file names)     *)
(* are kept as single tokens.  A path string is a sequence of tokens in    *)
(* which "/" is the separator.  The filesystem is the set of directories   *)
(* and a map from file paths to contents, both keyed by absolute paths     *)
(* (sequences of names).                                                   *)
(***************************************************************************)
EXTENDS Integers, Sequences, FiniteSets, TLC

\* ------------------------------------------------------------------ bounds
\* longest list of URLs handed to validate_github_urls / save_repos
MaxUrls == 2

\* ------------------------------------------------------------ text helpers
NL == "\n"

Chars(s) == { s[i] : i \in 1..Len(s) }

\* str.strip() strips these (the ones a modelled text can hold)
Whitespace == { " ", NL, "\t", "\r" }

RECURSIVE LStrip(_)
LStrip(s) == IF s # <<>> /\ Head(s) \in Whitespace THEN LStrip(Tail(s)) ELSE s

RECURSIVE RStrip(_)
RStrip(s) ==
    IF s # <<>> /\ s[Len(s)] \in Whitespace THEN RStrip(SubSeq(s, 1, Len(s) - 1)) ELSE s

\* str.strip()
Strip(s) == RStrip(LStrip(s))

\* sep.join(parts) for a one-token separator
RECURSIVE Join(_, _)
Join(parts, sep) ==
    IF parts = <<>> THEN <<>>
    ELSE IF Len(parts) = 1 THEN parts[1]
    ELSE parts[1] \o <<sep>> \o Join(Tail(parts), sep)

\* The lines of a text file as iterating the file object gives them: each
\* line keeps its terminating newline, the last line may lack one.
RECURSIVE FileLines(_)
FileLines(text) ==
    IF text = <<>> THEN <<>>
    ELSE IF \E i \in 1..Len(text) : text[i] = NL
         THEN LET i == CHOOSE k \in 1..Len(text) :
                           text[k] = NL /\ \A j \in 1..(k - 1) : text[j] # NL
              IN  <<SubSeq(text, 1, i)>> \o FileLines(SubSeq(text, i + 1, Len(text)))
         ELSE <<text>>

\* [f(x) for x in xs if p(x)] with f = strip, p = non-empty after strip
RECURSIVE StrippedNonEmpty(_)
StrippedNonEmpty(ls) ==
    IF ls = <<>> THEN <<>>
    ELSE (IF Strip(Head(ls)) # <<>> THEN <<Strip(Head(ls))>> ELSE <<>>)
         \o StrippedNonEmpty(Tail(ls))

\* ------------------------------------------------------- the URL pattern
Lower == { "a","b","c","d","e","f","g","h","i","j","k","l","m",
           "n","o","p","q","r","s","t","u","v","w","x","y","z" }
Upper == { "A","B","C","D","E","F","G","H","I","J","K","L","M",
           "N","O","P","Q","R","S","T","U","V","W","X","Y","Z" }
Digit == { "0","1","2","3","4","5","6","7","8","9" }

ALPHA_LOWER == << "a","b","c","d","e","f","g","h","i","j","k","l","m",
                 "n","o","p","q","r","s","t","u","v","w","x","y","z" >>
ALPHA_UPPER == << "A","B","C","D","E","F","G","H","I","J","K","L","M",
                 "N","O","P","Q","R","S","T","U","V","W","X","Y","Z" >>

\* str.lower()
StrLower(s) ==
    [i \in 1..Len(s) |->
        IF s[i] \in Upper
        THEN ALPHA_LOWER[CHOOSE k \in 1..Len(ALPHA_UPPER) : ALPHA_UPPER[k] = s[i]]
        ELSE s[i]]

\* [a-zA-Z0-9-]
OwnerClass == Lower \cup Upper \cup Digit \cup { "-" }
\* [a-zA-Z0-9-._]
RepoClass == Lower \cup Upper \cup Digit \cup { "-", ".", "_" }

\* https://github\.com/
UrlPrefix == << "h","t","t","p","s",":","/","/",
                "g","i","t","h","u","b",".","c","o","m","/" >>

\* One item of a regular expression: a character class and a quantifier
\* ("1" exactly once, "+" once or more, "?" at most once).
Item(cls, q) == [cls |-> cls, q |-> q]

RECURSIVE Lits(_)
Lits(s) == IF s = <<>> THEN <<>> ELSE <<Item({Head(s)}, "1")>> \o Lits(Tail(s))

\* ^https://github\.com/[a-zA-Z0-9-]+/[a-zA-Z0-9-._]+/?$  (between ^ and $)
pattern ==
    Lits(UrlPrefix) \o
    << Item(OwnerClass, "+"), Item({"/"}, "1"), Item(RepoClass, "+"), Item({"/"}, "?") >>

\* positions reachable from the positions P by consuming one character of cls
StepClass(u, P, cls) == { i + 1 : i \in { j \in P : j <= Len(u) /\ u[j] \in cls } }

RECURSIVE PlusClass(_, _, _)
PlusClass(u, P, cls) ==
    LET Q == StepClass(u, P, cls)
    IN  IF Q = {} THEN {} ELSE Q \cup PlusClass(u, Q, cls)

\* the positions at which items k.. of pat can end when started at one of P
RECURSIVE MatchItems(_, _, _, _)
MatchItems(pat, k, u, P) ==
    IF k > Len(pat) \/ P = {} THEN P
    ELSE LET it == pat[k]
             Q  == CASE it.q = "1" -> StepClass(u, P, it.cls)
                     [] it.q = "+" -> PlusClass(u, P, it.cls)
                     [] it.q = "?" -> P \cup StepClass(u, P, it.cls)
         IN  MatchItems(pat, k + 1, u, Q)

\* Python's $ (no MULTILINE): the end of the string, or just before a
\* newline that is the last character of the string.
AtDollar(u, i) == i = Len(u) + 1 \/ (i = Len(u) /\ u[i] = NL)

\* re.match(pattern, url) is not None
ReMatch(u) == \E i \in MatchItems(pattern, 1, u, {1}) : AtDollar(u, i)

\* ------------------------------------------------------------------ paths
\* pathlib.Path(s): the anchor and the components; empty and "." components
\* are dropped, ".." is kept.
PathOf(s) ==
    [abs |-> s # <<>> /\ s[1] = "/",
     parts |-> SelectSeq(s, LAMBDA t : t \notin {"/", "."})]

\* Path.name
NameOf(p) == IF p.parts = <<>> THEN "" ELSE p.parts[Len(p.parts)]

\* Path.parent (lexical)
ParentOf(p) ==
    IF p.parts = <<>> THEN p
    ELSE [abs |-> p.abs, parts |-> SubSeq(p.parts, 1, Len(p.parts) - 1)]

\* path / name
Child(p, name) == [abs |-> p.abs, parts |-> Append(p.parts, name)]

\* the directory above an absolute location
Up(loc) == IF loc = <<>> THEN <<>> ELSE SubSeq(loc, 1, Len(loc) - 1)

\* The operating system following the components from a directory: every
\* component is looked up in a directory; the result exists when it ends at
\* a directory or a file.
RECURSIVE Walk(_, _, _)
Walk(S, loc, parts) ==
    IF parts = <<>>
    THEN [found |-> loc \in S.dirs \/ loc \in DOMAIN S.files, at |-> loc]
    ELSE IF loc \notin S.dirs THEN [found |-> FALSE, at |-> loc]
    ELSE Walk(S, IF Head(parts) = ".." THEN Up(loc) ELSE Append(loc, Head(parts)),
              Tail(parts))

\* resolution of a path by a process whose working directory is wd
ResolveFrom(S, wd, p) == Walk(S, IF p.abs THEN <<>> ELSE wd, p.parts)
Resolve(S, p) == ResolveFrom(S, S.cwd, p)

\* Path.exists(), Path.is_dir()
Exists(S, p) == Resolve(S, p).found
IsDir(S, p) == Resolve(S, p).found /\ Resolve(S, p).at \in S.dirs
IsFile(S, p) == Resolve(S, p).found /\ Resolve(S, p).at \in DOMAIN S.files

\* the file map after writing content to the file at absolute location loc
WriteFile(fs, loc, content) ==
    [q \in DOMAIN fs \cup {loc} |-> IF q = loc THEN content ELSE fs[q]]

\* open(p, "w") / shutil.copy2 can create or replace p: its directory
\* exists and p is not itself a directory
Writable(S, p) ==
    /\ p.parts # <<>>
    /\ NameOf(p) # ".."
    /\ IsDir(S, ParentOf(p))
    /\ ~IsDir(S, p)

\* ---------------------------------------------------- CustomNodeInstaller
CLONE_SCRIPT == "clone-custom-nodes.py"
REPOS_FILE == "comfy-repos.txt"

\* self.required_files
required_files == << CLONE_SCRIPT, "package-preparation.py", "start-prep.bat" >>

\* self.utils_dir = Path(__file__).parent / "utils"
utils_dir == [abs |-> TRUE, parts |-> << "tool", "utils" >>]

\* A fault names the one operating-system call of an operation that raises
\* (PermissionError and the like); NoFault when every call behaves.  An
\* exception travelling up the call stack is a value with raised = TRUE.
NoFault == <<"none">>

Ret(ok, msg) == [raised |-> FALSE, ok |-> ok, msg |-> msg]
Raise == [raised |-> TRUE, ok |-> FALSE, msg |-> <<>>]

MSG_EMPTY == "Path cannot be empty!"
MSG_MISSING == "Path does not exist: "
MSG_NOTDIR == "Path is not a directory: "
MSG_NAME == "Directory must be named 'custom_nodes'"
MSG_MARKER == "Directory does not appear to be a ComfyUI installation (main.py not found in parent directory)"
MSG_VALID == "Path is valid"
MSG_PATHERR == "Error validating path: "

\* validate_path with the name check made before the directory check
validate_path_try_name_first(S, path, fault) ==
    IF path = <<>> \/ Strip(path) = <<>> THEN Ret(FALSE, <<MSG_EMPTY>>)
    ELSE LET path_obj == PathOf(path)
             parent_dir == ParentOf(path_obj)
         IN
         IF fault = <<"exists">> THEN Raise
         ELSE IF ~Exists(S, path_obj) THEN Ret(FALSE, <<MSG_MISSING>> \o path)
         ELSE IF NameOf(path_obj) # "custom_nodes" THEN Ret(FALSE, <<MSG_NAME>>)
         ELSE IF fault = <<"is_dir">> THEN Raise
         ELSE IF ~IsDir(S, path_obj) THEN Ret(FALSE, <<MSG_NOTDIR>> \o path)
         ELSE IF fault = <<"marker">> THEN Raise
         ELSE IF ~Exists(S, Child(parent_dir, "main.py")) THEN Ret(FALSE, <<MSG_MARKER>>)
         ELSE Ret(TRUE, <<MSG_VALID>>)

\* the try block of validate_path
validate_path_try(S, path, fault) ==
    IF path = <<>> \/ Strip(path) = <<>> THEN Ret(FALSE, <<MSG_EMPTY>>)
    ELSE LET path_obj == PathOf(path)
             parent_dir == ParentOf(path_obj)
         IN
         IF fault = <<"exists">> THEN Raise
         ELSE IF ~Exists(S, path_obj) THEN Ret(FALSE, <<MSG_MISSING>> \o path)
         ELSE IF fault = <<"is_dir">> THEN Raise
         ELSE IF ~IsDir(S, path_obj) THEN Ret(FALSE, <<MSG_NOTDIR>> \o path)
         ELSE IF NameOf(path_obj) # "custom_nodes" THEN Ret(FALSE, <<MSG_NAME>>)
         ELSE IF fault = <<"marker">> THEN Raise
         ELSE IF ~Exists(S, Child(parent_dir, "main.py")) THEN Ret(FALSE, <<MSG_MARKER>>)
         ELSE Ret(TRUE, <<MSG_VALID>>)

validate_path(S, path, fault) ==
    LET r == validate_path_try(S, path, fault) IN
    IF r.raised THEN Ret(FALSE, <<MSG_PATHERR>>) ELSE r

MSG_NOURLS == "No repository URLs provided"
MSG_BADURLS == "Invalid GitHub URLs found:"
MSG_ALLVALID == "All URLs are valid"

UrlRet(ok, msg, urls) == [raised |-> FALSE, ok |-> ok, msg |-> msg, urls |-> urls]

\* the loop of validate_github_urls over urls[k..], with the two lists so far
RECURSIVE SortUrls(_, _, _, _)
SortUrls(urls, k, valid_urls, invalid_urls) ==
    IF k > Len(urls) THEN [valid |-> valid_urls, invalid |-> invalid_urls]
    ELSE IF ReMatch(urls[k])
         THEN SortUrls(urls, k + 1, Append(valid_urls, urls[k]), invalid_urls)
         ELSE SortUrls(urls, k + 1, valid_urls, Append(invalid_urls, urls[k]))

validate_github_urls(urls) ==
    IF urls = <<>> THEN UrlRet(FALSE, <<MSG_NOURLS>>, <<>>)
    ELSE LET r == SortUrls(urls, 1, <<>>, <<>>) IN
         IF r.invalid # <<>>
         THEN UrlRet(FALSE, <<MSG_BADURLS, NL>> \o Join(r.invalid, NL), r.valid)
         ELSE UrlRet(TRUE, <<MSG_ALLVALID>>, r.valid)

MSG_NOFILE == "File not found: "
MSG_NOLINES == "No URLs found in the file"
MSG_READERR == "Error reading URLs from file: "

\* the try block of read_urls_from_file; open() raises on a directory
read_urls_try(S, file_path, fault) ==
    LET p == PathOf(file_path) IN
    IF ~Exists(S, p) THEN UrlRet(FALSE, <<MSG_NOFILE>> \o file_path, <<>>)
    ELSE IF fault = <<"open">> \/ ~IsFile(S, p) THEN Raise
    ELSE LET urls == StrippedNonEmpty(FileLines(S.files[Resolve(S, p).at])) IN
         IF urls = <<>> THEN UrlRet(FALSE, <<MSG_NOLINES>>, <<>>)
         ELSE UrlRet(TRUE, <<"Successfully read ", ToString(Len(urls)), " URLs from file">>,
                     urls)

read_urls_from_file(S, file_path, fault) ==
    LET r == read_urls_try(S, file_path, fault) IN
    IF r.raised THEN UrlRet(FALSE, <<MSG_READERR>>, <<>>) ELSE r

MSG_NOUTILS == "Utils directory not found: "
MSG_NOREQ == "Required file not found: "
MSG_COPIED == "Required files copied successfully"
MSG_COPYERR == "Error copying required files: "

FsRet(ok, msg, fs) == [raised |-> FALSE, ok |-> ok, msg |-> msg, files |-> fs]
FsRaise(fs) == [raised |-> TRUE, ok |-> FALSE, msg |-> <<>>, files |-> fs]

CopyFault(k) == <<"copy", k>>

\* shutil.copy2(source, dest) over the file map fs; raises when it cannot
\* read source or create dest
copy2(S, fs, source, dest) ==
    LET T == [dirs |-> S.dirs, files |-> fs, cwd |-> S.cwd] IN
    IF ~IsFile(T, source) \/ ~Writable(T, dest) THEN FsRaise(fs)
    ELSE FsRet(TRUE, <<>>, WriteFile(fs, Resolve(T, dest).at, fs[Resolve(T, source).at]))

\* the copy loop passing over a required file that is missing
RECURSIVE CopyLoopSkipMissing(_, _, _, _, _)
CopyLoopSkipMissing(S, fs, target_path, k, fault) ==
    IF k > Len(required_files) THEN FsRet(TRUE, <<MSG_COPIED>>, fs)
    ELSE LET file   == required_files[k]
             source == Child(utils_dir, file)
             T      == [dirs |-> S.dirs, files |-> fs, cwd |-> S.cwd]
         IN  IF ~Exists(T, source)
             THEN CopyLoopSkipMissing(S, fs, target_path, k + 1, fault)
             ELSE IF fault = CopyFault(k) THEN FsRaise(fs)
             ELSE LET c == copy2(S, fs, source, Child(target_path, file)) IN
                  IF c.raised THEN c
                  ELSE CopyLoopSkipMissing(S, c.files, target_path, k + 1, fault)

\* the loop of copy_required_files from the k-th required file on, over the
\* file map fs: the result and the file map it leaves
RECURSIVE CopyLoop(_, _, _, _, _)
CopyLoop(S, fs, target_path, k, fault) ==
    IF k > Len(required_files) THEN FsRet(TRUE, <<MSG_COPIED>>, fs)
    ELSE LET file   == required_files[k]
             source == Child(utils_dir, file)
             T      == [dirs |-> S.dirs, files |-> fs, cwd |-> S.cwd]
         IN  IF ~Exists(T, source) THEN FsRet(FALSE, <<MSG_NOREQ, file>>, fs)
             ELSE IF fault = CopyFault(k) THEN FsRaise(fs)
             ELSE LET c == copy2(S, fs, source, Child(target_path, file)) IN
                  IF c.raised THEN c
                  ELSE CopyLoop(S, c.files, target_path, k + 1, fault)

\* the try block of copy_required_files
copy_required_files_try(S, target_path, fault) ==
    LET source_dir == utils_dir IN
    IF ~Exists(S, source_dir) THEN FsRet(FALSE, <<MSG_NOUTILS>>, S.files)
    ELSE CopyLoop(S, S.files, target_path, 1, fault)

copy_required_files(S, target_path, fault) ==
    LET r == copy_required_files_try(S, target_path, fault) IN
    IF r.raised THEN FsRet(FALSE, <<MSG_COPYERR>>, r.files) ELSE r

MSG_ERROR == "Error: "
MSG_SAVED == "Repository list and required files saved successfully!"
MSG_SAVEERR == "Error saving repositories: "

\* with open(target_path / 'comfy-repos.txt', 'w') as f: f.write('\n'.join(valid_urls))
write_repos(S, fs, target_path, valid_urls, fault) ==
    LET T   == [dirs |-> S.dirs, files |-> fs, cwd |-> S.cwd]
        out == Child(target_path, REPOS_FILE)
    IN  IF fault = <<"write">> \/ ~Writable(T, out) THEN FsRaise(fs)
        ELSE FsRet(TRUE, <<>>, WriteFile(fs, Resolve(T, out).at, Join(valid_urls, NL)))

\* save_repos writing the URL list before it copies the required files
save_repos_try_write_first(S, valid_urls, custom_nodes_path, fault) ==
    LET target_path == PathOf(custom_nodes_path)
        w == write_repos(S, S.files, target_path, valid_urls, fault)
    IN  IF w.raised THEN w
        ELSE LET cp == copy_required_files(
                           [dirs |-> S.dirs, files |-> w.files, cwd |-> S.cwd],
                           target_path, fault)
             IN  IF ~cp.ok THEN FsRet(FALSE, <<MSG_ERROR>> \o cp.msg, cp.files)
                 ELSE FsRet(TRUE, <<MSG_SAVED>>, cp.files)

\* the try block of save_repos
save_repos_try(S, valid_urls, custom_nodes_path, fault) ==
    LET target_path == PathOf(custom_nodes_path)
        cp == copy_required_files(S, target_path, fault)
    IN  IF ~cp.ok THEN FsRet(FALSE, <<MSG_ERROR>> \o cp.msg, cp.files)
        ELSE LET w == write_repos(S, cp.files, target_path, valid_urls, fault) IN
             IF w.raised THEN w ELSE FsRet(TRUE, <<MSG_SAVED>>, w.files)

save_repos(S, repos, custom_nodes_path, fault) ==
    LET pv == validate_path(S, custom_nodes_path, fault) IN
    IF ~pv.ok THEN FsRet(FALSE, <<MSG_ERROR>> \o pv.msg, S.files)
    ELSE LET uv == validate_github_urls(repos) IN
    IF ~uv.ok THEN FsRet(FALSE, <<MSG_ERROR>> \o uv.msg, S.files)
    ELSE LET r == save_repos_try(S, uv.urls, custom_nodes_path, fault) IN
    IF r.raised THEN FsRet(FALSE, <<MSG_SAVEERR>>, r.files) ELSE r

MSG_NOSCRIPT == "Error: clone-custom-nodes.py not found! Please save repository list first."
MSG_INSTALLERR == "Installation error: "
MSG_ERRORS == "Errors:"
SEPARATOR == "=================================================="
BANNER == "Installation process completed!"

\* What the interpreter does when started in directory wd with the command
\* line [sys.executable, script]: it runs the file that script names from
\* wd, or, when there is no such file, ends with code 2 and a message on
\* stderr.  child is what the script does when it runs.
RunPython(S, wd, script, child) ==
    LET r == ResolveFrom(S, wd, script) IN
    IF r.found /\ r.at \in DOMAIN S.files
    THEN [ran |-> <<r.at>>, cwd |-> wd, args |-> <<script>>,
          returncode |-> child.returncode, stdout |-> child.stdout,
          stderr |-> child.stderr]
    ELSE [ran |-> <<>>, cwd |-> wd, args |-> <<script>>,
          returncode |-> 2, stdout |-> <<>>, stderr |-> <<"can't open file">>]

\* lines 246-258: the report built from the captured output
FormatOutput(result) ==
    Strip((IF result.stdout # <<>> THEN result.stdout \o <<NL>> ELSE <<>>)
          \o (IF result.stderr # <<>> THEN <<NL, MSG_ERRORS, NL>> \o result.stderr ELSE <<>>)
          \o <<NL, SEPARATOR, NL, BANNER>>)

\* The outcome of install_nodes: the returned pair, the working directory
\* it leaves, and the subprocesses it started (none or one).
RunRet(raised, ok, msg, wd, procs) ==
    [raised |-> raised, ok |-> ok, msg |-> msg, cwd |-> wd, procs |-> procs]

\* the working directory left where the script ran
FinallySkipped(current_dir, wd) == wd

\* finally: os.chdir(current_dir)
Finally(current_dir, wd) == current_dir

\* subprocess.run(..., check=True): a non-zero exit code raises
run_script_try_check(S, script_path, current_dir, wd, fault, child) ==
    IF fault = <<"spawn">>
    THEN RunRet(TRUE, FALSE, <<>>, Finally(current_dir, wd), <<>>)
    ELSE LET result == RunPython(S, wd, script_path, child) IN
         IF result.returncode # 0
         THEN RunRet(TRUE, FALSE, <<>>, Finally(current_dir, wd), <<result>>)
         ELSE RunRet(FALSE, TRUE, FormatOutput(result), Finally(current_dir, wd),
                     <<result>>)

\* the inner try/finally of install_nodes, entered with the working
\* directory already changed to wd
run_script_try(S, script_path, current_dir, wd, fault, child) ==
    IF fault = <<"spawn">>
    THEN RunRet(TRUE, FALSE, <<>>, Finally(current_dir, wd), <<>>)
    ELSE LET result == RunPython(S, wd, script_path, child) IN
         RunRet(FALSE, result.returncode = 0, FormatOutput(result),
                Finally(current_dir, wd), <<result>>)

\* the outer try block of install_nodes
install_nodes_try(S, custom_nodes_path, fault, child) ==
    LET script_path == Child(PathOf(custom_nodes_path), CLONE_SCRIPT) IN
    IF ~Exists(S, script_path) THEN RunRet(FALSE, FALSE, <<MSG_NOSCRIPT>>, S.cwd, <<>>)
    ELSE LET current_dir == S.cwd IN
         IF fault = <<"chdir">> THEN RunRet(TRUE, FALSE, <<>>, S.cwd, <<>>)
         ELSE run_script_try(S, script_path, current_dir,
                             Resolve(S, PathOf(custom_nodes_path)).at, fault, child)

install_nodes(S, custom_nodes_path, fault, child) ==
    LET pv == validate_path(S, custom_nodes_path, fault) IN
    IF ~pv.ok THEN RunRet(FALSE, FALSE, <<MSG_ERROR>> \o pv.msg, S.cwd, <<>>)
    ELSE LET r == install_nodes_try(S, custom_nodes_path, fault, child) IN
         IF r.raised THEN RunRet(FALSE, FALSE, <<MSG_INSTALLERR>>, r.cwd, r.procs)
         ELSE r

\* ------------------------------------------------------------ environment
\* Locations of the modelled filesystem.
ROOT == <<>>
APP == << "app" >>
TARGET == << "app", "custom_nodes" >>
NESTED == << "app", "custom_nodes", "custom_nodes" >>
NODES == << "app", "nodes" >>
TOOL == << "tool" >>
BARE == << "tool", "custom_nodes" >>
UTILS == << "tool", "utils" >>
URLS_TXT == << "tool", "urls.txt" >>

\* a file map from a set of <<location, content>> pairs
FileMap(pairs) ==
    [loc \in { q[1] : q \in pairs } |-> (CHOOSE q \in pairs : q[1] = loc)[2]]

Bundled(name) == << "bundled ", name >>

\* A filesystem: main.py beside the target or not; the target a directory,
\* a file or absent; a second custom_nodes directory inside the target that
\* holds a script of its own; the utils directory present or not and the
\* required files it holds (by index); a previously staged script and
\* a previously written URL list in the target; the text of the URL file.
MkFS(hasMain, cnKind, nested, hasUtils, bundled, staged, prior, text) ==
    [dirs |-> { ROOT, APP, NODES, TOOL, BARE }
              \cup (IF cnKind = "dir" THEN { TARGET } ELSE {})
              \cup (IF cnKind = "dir" /\ nested THEN { NESTED } ELSE {})
              \cup (IF hasUtils THEN { UTILS } ELSE {}),
     files |-> FileMap(
              { << URLS_TXT, text >> }
              \cup (IF hasMain THEN { << Append(APP, "main.py"), << "main" >> >> } ELSE {})
              \cup (IF cnKind = "file" THEN { << TARGET, << "not a directory" >> >> } ELSE {})
              \cup (IF cnKind = "dir" /\ nested
                    THEN { << Append(NESTED, CLONE_SCRIPT), << "another script" >> >>,
                           << Append(TARGET, "main.py"), << "main" >> >> }
                    ELSE {})
              \cup (IF ~hasUtils THEN {}
                    ELSE { << Append(UTILS, required_files[k]), Bundled(required_files[k]) >> :
                           k \in bundled })
              \cup (IF cnKind = "dir" /\ staged
                    THEN { << Append(TARGET, CLONE_SCRIPT), << "old script" >> >> } ELSE {})
              \cup (IF cnKind = "dir" /\ prior
                    THEN { << Append(TARGET, REPOS_FILE), << "o", "l", "d", NL >> >> } ELSE {}))]

AllBundled == 1..Len(required_files)

\* path strings
P_ABS == << "/", "app", "/", "custom_nodes" >>
P_ABS_SLASH == << "/", "app", "/", "custom_nodes", "/" >>
P_REL == << "custom_nodes" >>
P_REL_APP == << "app", "/", "custom_nodes" >>
P_DOTDOT == << "..", "/", "custom_nodes" >>
P_DOT == << "." >>
P_EMPTY == <<>>
P_BLANK == << " " >>
P_MISSING == << "/", "app", "/", "missing" >>
P_FILE == << "/", "app", "/", "main.py" >>
P_OTHER == << "/", "app", "/", "nodes" >>
P_BARE == << "/", "tool", "/", "custom_nodes" >>
P_URLS == << "/", "tool", "/", "urls.txt" >>

PathInputs ==
    { P_ABS, P_ABS_SLASH, P_REL, P_REL_APP, P_DOTDOT, P_DOT, P_EMPTY, P_BLANK,
      P_MISSING, P_FILE, P_OTHER, P_BARE }

\* URL strings
U(tail) == UrlPrefix \o tail
U_AB == U(<< "a", "/", "b" >>)
U_SLASH == U(<< "a", "/", "b", "/" >>)
U_NEWLINE == U(<< "a", "/", "b", NL >>)
U_DOTTED == U(<< "A", "-", "1", "/", "b", ".", "c", "_", "d" >>)
U_OWNER_US == U(<< "a", "_", "/", "b" >>)
U_NOREPO == U(<< "a" >>)
U_DEEP == U(<< "a", "/", "b", "/", "c" >>)
U_HTTP == << "h", "t", "t", "p", ":", "/", "/", "g", "i", "t", "h", "u", "b", ".",
             "c", "o", "m", "/", "a", "/", "b" >>
U_NOT == << "n", "o", "t", "-", "a", "-", "u", "r", "l" >>
U_PADDED == << " " >> \o U_AB

UrlInputs == { U_AB, U_SLASH, U_NEWLINE, U_DOTTED, U_OWNER_US, U_NOREPO, U_DEEP,
               U_HTTP, U_NOT, U_PADDED }

\* the sequences over A of length at most n
SeqsUpTo(A, n) == UNION { [1..k -> A] : k \in 0..n }

\* ------------------------------------------------------------------ state
VARIABLES
    dirs,               \* the directories of the filesystem
    files,              \* file location -> content
    cwd,                \* the process working directory (os.getcwd())
    call,               \* the last call of a CustomNodeInstaller method
    pc,                 \* main: the statement main() is at
    args,               \* main: the parsed command line
    urls,               \* main: urls
    valid_urls,         \* main: valid_urls
    custom_nodes_path,  \* main: custom_nodes_path
    confirm,            \* main: confirm
    installed,          \* main: what install_nodes did and returned
    exit_code,          \* main: the process exit status, -1 while running
    events,             \* main: what the run has done so far
    files0              \* the file map when the process started

fsVars == << dirs, files, cwd >>
mainVars == << pc, args, urls, valid_urls, custom_nodes_path, confirm, installed,
              exit_code, events, files0 >>
vars == << dirs, files, cwd, call, pc, args, urls, valid_urls, custom_nodes_path,
           confirm, installed, exit_code, events, files0 >>

\* the filesystem and working directory as the methods see them
Now == [dirs |-> dirs, files |-> files, cwd |-> cwd]

NoCall == [op |-> "none"]
NoArgs == [file |-> <<>>, dir |-> <<>>, validate |-> FALSE]

MainIdle ==
    /\ pc = "idle"
    /\ args = NoArgs
    /\ urls = <<>>
    /\ valid_urls = <<>>
    /\ custom_nodes_path = <<>>
    /\ confirm = <<>>
    /\ installed = <<>>
    /\ exit_code = -1
    /\ events = <<>>

InitFS(F, wd) ==
    /\ dirs = F.dirs
    /\ files = F.files
    /\ cwd = wd
    /\ wd \in F.dirs
    /\ files0 = F.files

\* ------------------------------------------------- validate_github_urls
InitUrls ==
    /\ InitFS(MkFS(TRUE, "dir", FALSE, TRUE, AllBundled, FALSE, FALSE, <<>>), ROOT)
    /\ call = NoCall
    /\ MainIdle

CallValidateUrls ==
    \E us \in SeqsUpTo(UrlInputs, MaxUrls) :
        /\ call.op = "none"
        /\ call' = [op |-> "validate_github_urls", urls |-> us,
                    ret |-> validate_github_urls(us)]
        /\ UNCHANGED << fsVars, mainVars >>

NextUrls == CallValidateUrls
SpecUrls == InitUrls /\ [][NextUrls]_vars

\* RepositoryURL as the data model defines it: the prefix, an owner of one
\* or more letters, digits and hyphens, a slash, a repository name of one or
\* more letters, digits, hyphens, dots and underscores, an optional trailing
\* slash, and then the end of the string.
IsRepositoryURL(u) ==
    /\ Len(u) > Len(UrlPrefix)
    /\ SubSeq(u, 1, Len(UrlPrefix)) = UrlPrefix
    /\ LET rest == SubSeq(u, Len(UrlPrefix) + 1, Len(u)) IN
       \E k \in 2..Len(rest) :
           /\ rest[k] = "/"
           /\ \A i \in 1..(k - 1) : rest[i] \in OwnerClass
           /\ LET last == IF rest[Len(rest)] = "/" /\ Len(rest) > k + 1
                          THEN Len(rest) - 1 ELSE Len(rest)
              IN  /\ last > k
                  /\ \A i \in (k + 1)..last : rest[i] \in RepoClass

\* C2: validate_github_urls is all-or-nothing.  An empty list fails with an
\* empty subset; a non-empty list succeeds iff every element is a
\* RepositoryURL; when some element is not, the message lists exactly those
\* elements in input order, one per line, and the returned subset is exactly
\* the elements that are, in input order.
C2_AllOrNothing ==
    call.op = "validate_github_urls" =>
        LET us   == call.urls
            good == SelectSeq(us, IsRepositoryURL)
            bad  == SelectSeq(us, LAMBDA u : ~IsRepositoryURL(u))
        IN  /\ us = <<>> => ~call.ret.ok /\ call.ret.urls = <<>>
            /\ us # <<>> => (call.ret.ok <=> bad = <<>>)
            /\ bad # <<>> =>
                   /\ ~call.ret.ok
                   /\ call.ret.msg = <<MSG_BADURLS, NL>> \o Join(bad, NL)
                   /\ call.ret.urls = good

\* ------------------------------------------------------------ validate_path
InitPath ==
    /\ \E hasMain \in BOOLEAN, cnKind \in { "dir", "file", "absent" },
          wd \in { ROOT, APP, TARGET, NODES } :
           InitFS(MkFS(hasMain, cnKind, FALSE, TRUE, AllBundled, FALSE, FALSE, <<>>), wd)
    /\ call = NoCall
    /\ MainIdle

PathFaults == { NoFault, <<"exists">>, <<"is_dir">>, <<"marker">> }

CallValidatePath ==
    \E path \in PathInputs, fault \in PathFaults :
        /\ call.op = "none"
        /\ call' = [op |-> "validate_path", path |-> path, fault |-> fault, pre |-> Now,
                    ret |-> validate_path(Now, path, fault)]
        /\ UNCHANGED << fsVars, mainVars >>

NextPath == CallValidatePath
SpecPath == InitPath /\ [][NextPath]_vars

\* the five conditions of a target directory, in the order of the checks
PathChecks(S, path) ==
    LET p == PathOf(path) IN
    << Strip(path) # <<>>,
       Exists(S, p),
       IsDir(S, p),
       NameOf(p) = "custom_nodes",
       Exists(S, Child(ParentOf(p), "main.py")) >>

PathReasons == << MSG_EMPTY, MSG_MISSING, MSG_NOTDIR, MSG_NAME, MSG_MARKER >>

\* the first condition that does not hold, 0 when all hold
FirstFailing(c) ==
    IF \A i \in 1..Len(c) : c[i] THEN 0
    ELSE CHOOSE i \in 1..Len(c) : ~c[i] /\ \A j \in 1..(i - 1) : c[j]

\* C3: validate_path returns the reason of the first of the five checks
\* (blank, missing, not a directory, base name, marker file) that fails and
\* is valid iff all five pass; a filesystem error gives an invalid result,
\* never an exception; the filesystem and the working directory are as
\* before the call.
C3_FirstFailingCheck ==
    call.op = "validate_path" =>
        LET k == FirstFailing(PathChecks(call.pre, call.path)) IN
        /\ ~call.ret.raised
        /\ Now = call.pre
        /\ call.fault = NoFault =>
               /\ call.ret.ok <=> k = 0
               /\ k # 0 => Head(call.ret.msg) = PathReasons[k]
        /\ call.fault # NoFault =>
               /\ ~call.ret.ok
               /\ \/ call.ret.msg = <<MSG_PATHERR>>
                  \/ k # 0 /\ Head(call.ret.msg) = PathReasons[k]

\* a file whose name is also wrong is reported as not a directory
C3_Witness ==
    /\ call.op = "validate_path"
    /\ call.fault = NoFault
    /\ call.path = P_FILE
    /\ PathChecks(call.pre, call.path) = << TRUE, TRUE, FALSE, FALSE, TRUE >>
    /\ call.ret = Ret(FALSE, <<MSG_NOTDIR>> \o P_FILE)

\* ----------------------------------- copy_required_files and save_repos
InitSave ==
    /\ \E hasMain \in BOOLEAN, cnKind \in { "dir", "absent" }, hasUtils \in BOOLEAN,
          bundled \in { AllBundled, { 1, 2 }, { 1, 3 }, { 2, 3 }, {} },
          staged \in BOOLEAN, prior \in BOOLEAN,
          wd \in { ROOT, APP } :
           InitFS(MkFS(hasMain, cnKind, FALSE, hasUtils, bundled, staged, prior, <<>>), wd)
    /\ call = NoCall
    /\ MainIdle

CopyFaults == { NoFault } \cup { CopyFault(k) : k \in AllBundled }
CopyTargets == { P_ABS, P_REL, P_MISSING, P_OTHER }

CallCopyRequiredFiles ==
    \E target \in CopyTargets, fault \in CopyFaults :
        LET ret == copy_required_files(Now, PathOf(target), fault) IN
        /\ call.op = "none"
        /\ call' = [op |-> "copy_required_files", target |-> target, fault |-> fault,
                    pre |-> Now, ret |-> ret]
        /\ files' = ret.files
        /\ UNCHANGED << dirs, cwd, mainVars >>

RepoInputs == { U_AB, U_NEWLINE, U_DOTTED, U_NOT }
SavePaths == { P_ABS, P_REL, P_OTHER, P_EMPTY }
SaveFaults == { NoFault, <<"marker">>, CopyFault(2), <<"write">> }

CallSaveRepos ==
    \E repos \in SeqsUpTo(RepoInputs, MaxUrls), path \in SavePaths, fault \in SaveFaults :
        LET ret == save_repos(Now, repos, path, fault) IN
        /\ call.op = "none"
        /\ call' = [op |-> "save_repos", repos |-> repos, path |-> path, fault |-> fault,
                    pre |-> Now, ret |-> ret]
        /\ files' = ret.files
        /\ UNCHANGED << dirs, cwd, mainVars >>

\* the caller reads back the list save_repos has just written
CallReadBack ==
    /\ call.op = "save_repos"
    /\ call.ret.ok
    /\ call' = [op |-> "read_urls_from_file", saved |-> call.repos,
                file_path |-> call.path \o << "/", REPOS_FILE >>,
                ret |-> read_urls_from_file(Now, call.path \o << "/", REPOS_FILE >>, NoFault)]
    /\ UNCHANGED << fsVars, mainVars >>

NextSave == CallCopyRequiredFiles \/ CallSaveRepos \/ CallReadBack
SpecSave == InitSave /\ [][NextSave]_vars

\* C4: reading back the list that a successful save_repos wrote gives the
\* URLs that were saved: as many, each equal, in the same order.
C4_RoundTrip ==
    call.op = "read_urls_from_file" =>
        /\ call.ret.ok
        /\ Len(call.ret.urls) = Len(call.saved)
        /\ call.ret.urls = call.saved

\* the content of the file at location loc, <<>> wrapped; <<>> when absent
FileAt(fs, loc) == IF loc \in DOMAIN fs THEN << fs[loc] >> ELSE <<>>

\* the map fs without the locations in L
Without(fs, L) == [loc \in DOMAIN fs \ L |-> fs[loc]]

\* C5: save_repos runs path validation, URL validation, staging and the
\* write of the URL list in this order and returns the reason of the first
\* that fails.  A failed path or URL validation leaves the files as they
\* were; a failed staging leaves the URL-list file as it was; on success
\* the URL-list file holds the given URLs, one per line, in order, whatever
\* it held before.
C5_ShortCircuit ==
    call.op = "save_repos" =>
        LET pre  == call.pre
            pv   == validate_path(pre, call.path, call.fault)
            uv   == validate_github_urls(call.repos)
            cp   == copy_required_files(pre, PathOf(call.path), call.fault)
            list == Append(Resolve(pre, PathOf(call.path)).at, REPOS_FILE)
            ret  == call.ret
        IN  /\ ~ret.raised
            /\ dirs = pre.dirs /\ cwd = pre.cwd
            /\ ~pv.ok => ret.msg = <<MSG_ERROR>> \o pv.msg /\ ~ret.ok /\ files = pre.files
            /\ pv.ok /\ ~uv.ok =>
                   ret.msg = <<MSG_ERROR>> \o uv.msg /\ ~ret.ok /\ files = pre.files
            /\ pv.ok /\ uv.ok /\ ~cp.ok =>
                   /\ ret.msg = <<MSG_ERROR>> \o cp.msg /\ ~ret.ok
                   /\ FileAt(files, list) = FileAt(pre.files, list)
            /\ pv.ok /\ uv.ok /\ cp.ok /\ call.fault = <<"write">> =>
                   /\ ret.msg = <<MSG_SAVEERR>> /\ ~ret.ok
                   /\ FileAt(files, list) = FileAt(pre.files, list)
            /\ ret.ok =>
                   /\ pv.ok /\ uv.ok /\ cp.ok
                   /\ FileAt(files, list) = << Join(call.repos, NL) >>
                   /\ Without(files, {list}) = Without(cp.files, {list})

\* staging failed on a missing bundled file after a prior list was written
C5_Witness ==
    /\ call.op = "save_repos"
    /\ call.repos = << U_AB, U_DOTTED >>
    /\ call.ret.msg = << MSG_ERROR, MSG_NOREQ, required_files[2] >>
    /\ files # call.pre.files
    /\ Append(TARGET, REPOS_FILE) \in DOMAIN files

\* C6: copy_required_files fails whenever the utils directory or one of
\* the required files in it is absent, however many files it has copied;
\* it succeeds only with all three required files in the target holding
\* the bundled content; when it fails at a missing file, the required files
\* listed before that one have been copied and no other file has changed.
C6_Staging ==
    call.op = "copy_required_files" =>
        LET pre  == call.pre
            ret  == call.ret
            src(k) == Append(UTILS, required_files[k])
            dst(k) == Append(Resolve(pre, PathOf(call.target)).at, required_files[k])
            absent == { k \in AllBundled : src(k) \notin DOMAIN pre.files }
        IN  /\ ~ret.raised
            /\ dirs = pre.dirs /\ cwd = pre.cwd
            /\ UTILS \notin pre.dirs \/ absent # {} => ~ret.ok
            /\ ret.ok => \A k \in AllBundled : FileAt(files, dst(k)) = << pre.files[src(k)] >>
            /\ \A m \in AllBundled :
                   ret.msg = << MSG_NOREQ, required_files[m] >> =>
                       /\ m \in absent /\ \A k \in 1..(m - 1) : k \notin absent
                       /\ \A k \in 1..(m - 1) : FileAt(files, dst(k)) = << pre.files[src(k)] >>
                       /\ Without(files, { dst(k) : k \in 1..(m - 1) })
                              = Without(pre.files, { dst(k) : k \in 1..(m - 1) })

\* the first file was copied over an older one, the second is missing
C6_Witness ==
    /\ call.op = "copy_required_files"
    /\ call.ret = FsRet(FALSE, << MSG_NOREQ, required_files[2] >>, files)
    /\ FileAt(files, Append(TARGET, CLONE_SCRIPT)) = << Bundled(CLONE_SCRIPT) >>
    /\ FileAt(call.pre.files, Append(TARGET, CLONE_SCRIPT)) = << << "old script" >> >>
    /\ FileAt(files, Append(TARGET, required_files[3])) = <<>>

\* ----------------------------------------------------------- install_nodes
InitInstall ==
    /\ \E hasMain \in BOOLEAN, cnKind \in { "dir", "absent" }, nested \in BOOLEAN,
          staged \in BOOLEAN, wd \in { ROOT, APP, TARGET, NODES, TOOL } :
           InitFS(MkFS(hasMain, cnKind, nested, TRUE, AllBundled, staged, staged, <<>>), wd)
    /\ call = NoCall
    /\ MainIdle

InstallPaths ==
    { P_ABS, P_ABS_SLASH, P_REL, P_REL_APP, P_DOTDOT, P_MISSING, P_EMPTY, P_OTHER }
InstallFaults == { NoFault, <<"exists">>, <<"chdir">>, <<"spawn">> }

\* what the clone script can do: its exit code and what it prints
Children ==
    [returncode : { 0, 1 },
     stdout : { <<>>, << "o", "k" >>, << NL >> },
     stderr : { <<>>, << "e", "r", "r", NL >> }]

CallInstallNodes ==
    \E path \in InstallPaths, fault \in InstallFaults, child \in Children :
        LET ret == install_nodes(Now, path, fault, child) IN
        /\ call.op = "none"
        /\ call' = [op |-> "install_nodes", path |-> path, fault |-> fault,
                    child |-> child, pre |-> Now, ret |-> ret]
        /\ cwd' = ret.cwd
        /\ UNCHANGED << dirs, files, mainVars >>

NextInstall == CallInstallNodes
SpecInstall == InitInstall /\ [][NextInstall]_vars

\* C1: after install_nodes has returned the working directory is the one
\* it was called in, however the call ended.
C1_CwdRestored ==
    call.op = "install_nodes" => ~call.ret.raised /\ cwd = call.pre.cwd

\* the subprocess could not be started after the directory had been changed
C1_Witness ==
    /\ call.op = "install_nodes"
    /\ call.fault = <<"spawn">>
    /\ call.ret.msg = <<MSG_INSTALLERR>>
    /\ call.pre.cwd # Resolve(call.pre, PathOf(call.path)).at
    /\ cwd = call.pre.cwd

\* C7: when the subprocess ran and returned, install_nodes succeeds iff its
\* exit code is zero and returns the report, which ends with the completion
\* banner; the result is (false, "Installation error: ...") only when no
\* subprocess could be run; no exception escapes.
C7_SoftAndHardFailure ==
    call.op = "install_nodes" =>
        LET ret == call.ret IN
        /\ ~ret.raised
        /\ ret.procs # <<>> =>
               /\ ret.ok <=> ret.procs[1].returncode = 0
               /\ ret.msg[Len(ret.msg)] = BANNER
               /\ \A i \in 1..Len(ret.msg) : ret.msg[i] # MSG_INSTALLERR
        /\ Head(ret.msg) = MSG_INSTALLERR =>
               ~ret.ok /\ ret.procs = <<>> /\ call.fault \in { <<"chdir">>, <<"spawn">> }
        /\ ret.procs = <<>> /\ validate_path(call.pre, call.path, call.fault).ok
             /\ Exists(call.pre, Child(PathOf(call.path), CLONE_SCRIPT)) =>
               ret = RunRet(FALSE, FALSE, <<MSG_INSTALLERR>>, call.pre.cwd, <<>>)

\* the script ran, printed to both streams and ended with a non-zero code
C7_Witness ==
    /\ call.op = "install_nodes"
    /\ call.ret.procs # <<>>
    /\ call.ret.procs[1].ran # <<>>
    /\ call.ret.procs[1].returncode = 1
    /\ ~call.ret.ok
    /\ call.ret.msg = << "o", "k", NL, NL, MSG_ERRORS, NL, "e", "r", "r", NL,
                         NL, SEPARATOR, NL, BANNER >>

\* C9: for a target that validate_path accepts and that holds the staged
\* script, install_nodes runs that script file, without arguments, in the
\* target directory.
C9_RunsStagedScript ==
    /\ call.op = "install_nodes"
    /\ call.fault = NoFault
    /\ validate_path(call.pre, call.path, NoFault).ok
    /\ Append(Resolve(call.pre, PathOf(call.path)).at, CLONE_SCRIPT) \in DOMAIN call.pre.files
    => LET target == Resolve(call.pre, PathOf(call.path)).at
           procs  == call.ret.procs
       IN  /\ Len(procs) = 1
           /\ procs[1].cwd = target
           /\ procs[1].ran = << Append(target, CLONE_SCRIPT) >>
           /\ Len(procs[1].args) = 1

\* ------------------------------------------------------------------- main
\* texts of the URL file
T_EMPTY == <<>>
T_BLANK == << " ", NL, NL >>
T_ONE == U_AB \o << NL >>
T_TWO == << " " >> \o U_AB \o << " ", NL, NL >> \o U_SLASH
T_BAD == U_AB \o << NL >> \o U_NOT \o << NL >>
FileTexts == { T_EMPTY, T_BLANK, T_ONE, T_TWO, T_BAD }

P_NOFILE == << "/", "tool", "/", "none.txt" >>

\* the command lines: -f, -d (<<>> when not given), -v
ArgsInputs ==
    [file : { P_URLS, P_NOFILE }, dir : { <<>>, P_ABS, P_REL, P_OTHER },
     validate : BOOLEAN]

\* what the user types at the two prompts
PromptPaths == { P_ABS, P_EMPTY, P_REL_APP }
Answers == { << "y" >>, << "Y" >>, << "n" >>, <<>>, << "y", "e", "s" >>, << " ", "y" >> }

Init ==
    /\ \E hasMain \in BOOLEAN, bundled \in { AllBundled, { 1, 3 } },
          text \in FileTexts, wd \in { ROOT, APP } :
           InitFS(MkFS(hasMain, "dir", FALSE, TRUE, bundled, FALSE, FALSE, text), wd)
    /\ call = NoCall
    /\ pc = "read"
    /\ args \in ArgsInputs
    /\ urls = <<>>
    /\ valid_urls = <<>>
    /\ custom_nodes_path = <<>>
    /\ confirm = <<>>
    /\ installed = <<>>
    /\ exit_code = -1
    /\ events = <<>>

\* sys.exit(code) after the run did what
Exit(code, what) ==
    /\ pc' = "exit"
    /\ exit_code' = code
    /\ events' = Append(events, what)

Goto(label, what) ==
    /\ pc' = label
    /\ events' = Append(events, what)
    /\ UNCHANGED exit_code

\* lines 309-317
MainReadUrls ==
    /\ pc = "read"
    /\ \E fault \in { NoFault, <<"open">> } :
        LET r == read_urls_from_file(Now, args.file, fault) IN
        IF ~r.ok
        THEN Exit(1, "read failed") /\ UNCHANGED urls
        ELSE Goto("validate_urls", "read") /\ urls' = r.urls
    /\ UNCHANGED << fsVars, call, args, valid_urls, custom_nodes_path, confirm,
                    installed, files0 >>

\* lines 319-323
MainValidateUrls ==
    /\ pc = "validate_urls"
    /\ LET r == validate_github_urls(urls) IN
        IF ~r.ok
        THEN Exit(1, "urls invalid") /\ UNCHANGED valid_urls
        ELSE Goto("get_path", "urls valid") /\ valid_urls' = r.urls
    /\ UNCHANGED << fsVars, call, args, urls, custom_nodes_path, confirm, installed,
                    files0 >>

\* lines 325-329: not custom_nodes_path holds for a missing -d and for -d ""
MainGetPath ==
    /\ pc = "get_path"
    /\ IF args.dir = <<>>
       THEN \E typed \in PromptPaths : custom_nodes_path' = typed
       ELSE custom_nodes_path' = args.dir
    /\ pc' = "validate_path"
    /\ UNCHANGED << fsVars, call, args, urls, valid_urls, confirm, installed, exit_code,
                    events, files0 >>

\* lines 331-343
MainValidatePath ==
    /\ pc = "validate_path"
    /\ \E fault \in { NoFault, <<"is_dir">> } :
        LET r == validate_path(Now, custom_nodes_path, fault) IN
        IF ~r.ok THEN Exit(1, "path invalid")
        ELSE IF args.validate THEN Exit(0, "validated")
        ELSE Goto("save", "path valid")
    /\ UNCHANGED << fsVars, call, args, urls, valid_urls, custom_nodes_path, confirm,
                    installed, files0 >>

\* lines 345-352
MainSaveRepos ==
    /\ pc = "save"
    /\ \E fault \in { NoFault, CopyFault(2), <<"write">> } :
        LET r == save_repos(Now, valid_urls, custom_nodes_path, fault) IN
        /\ files' = r.files
        /\ IF ~r.ok THEN Exit(1, "save failed") ELSE Goto("confirm", "saved")
    /\ UNCHANGED << dirs, cwd, call, args, urls, valid_urls, custom_nodes_path, confirm,
                    installed, files0 >>

\* any answer that begins with y or Y taken as a yes
AffirmativePrefix(answer) == answer # <<>> /\ StrLower(<< Head(answer) >>) = << "y" >>

\* confirm.lower() != 'y' does not hold
Affirmative(answer) == StrLower(answer) = << "y" >>

\* lines 354-359
MainConfirm ==
    /\ pc = "confirm"
    /\ \E typed \in Answers :
        /\ confirm' = typed
        /\ IF ~Affirmative(typed) THEN Exit(0, "cancelled") ELSE Goto("install", "confirmed")
    /\ UNCHANGED << fsVars, call, args, urls, valid_urls, custom_nodes_path, installed,
                    files0 >>

\* the exit status not set after a failed install
ExitStatusZero(success) == 0

\* lines 366-370: the exit status after install_nodes returned success
ExitStatus(success) == IF ~success THEN 1 ELSE 0

\* lines 361-370
MainInstall ==
    /\ pc = "install"
    /\ \E fault \in { NoFault, <<"spawn">> }, child \in Children :
        LET r == install_nodes(Now, custom_nodes_path, fault, child) IN
        /\ cwd' = r.cwd
        /\ installed' = << r >>
        /\ Exit(ExitStatus(r.ok), "installed")
    /\ UNCHANGED << dirs, files, call, args, urls, valid_urls, custom_nodes_path, confirm,
                    files0 >>

Next ==
    \/ MainReadUrls
    \/ MainValidateUrls
    \/ MainGetPath
    \/ MainValidatePath
    \/ MainSaveRepos
    \/ MainConfirm
    \/ MainInstall

Spec == Init /\ [][Next]_vars

\* the filesystem the run started with
Started == [dirs |-> dirs, files |-> files0, cwd |-> cwd]

Failures == { "read failed", "urls invalid", "path invalid", "save failed" }

\* the subprocesses the run has started
Started_procs == IF installed = <<>> THEN <<>> ELSE installed[1].procs

\* C8: main exits with 0 exactly after a successful validate-only run,
\* after the user declined, or after an install whose subprocess ended with
\* code zero, and with 1 when reading the URL file, URL validation, path
\* validation, save_repos or the install failed; a failed step is the last
\* step of the run.
C8_ExitCodes ==
    /\ pc # "exit" => exit_code = -1
    /\ \A i \in 1..Len(events) : events[i] \in Failures => pc = "exit" /\ i = Len(events)
    /\ pc # "read" /\ ~read_urls_from_file(Started, args.file, NoFault).ok =>
           pc = "exit" /\ events = << "read failed" >>
    /\ pc \notin { "read", "validate_urls" } /\ urls # <<>>
         /\ (\E i \in 1..Len(urls) : ~ReMatch(urls[i])) =>
           pc = "exit" /\ events = << "read", "urls invalid" >>
    /\ pc \notin { "read", "validate_urls", "get_path", "validate_path" }
         /\ "urls valid" \in Chars(events)
         /\ ~validate_path(Started, custom_nodes_path, NoFault).ok =>
           pc = "exit" /\ events = << "read", "urls valid", "path invalid" >>
    /\ pc = "exit" =>
           /\ exit_code \in { 0, 1 }
           /\ exit_code = 0 <=>
                  \/ events[Len(events)] \in { "validated", "cancelled" }
                  \/ Started_procs # <<>> /\ Started_procs[1].returncode = 0
           /\ exit_code = 1 <=>
                  \/ events[Len(events)] \in Failures
                  \/ installed # <<>> /\ ~installed[1].ok

\* the install ran the script, which ended with a non-zero code
C8_Witness ==
    /\ pc = "exit"
    /\ exit_code = 1
    /\ Started_procs # <<>>
    /\ Started_procs[1].ran # <<>>
    /\ Started_procs[1].returncode = 1

\* C10: main starts the install subprocess only after it has read the URL
\* file, every URL has passed validation, the target path has passed
\* validation, save_repos has succeeded and the user has answered y or Y, in
\* this order; any other answer cancels the run; with -v nothing is staged
\* or written and no subprocess is started.
C10_InstallLast ==
    /\ Started_procs # <<>> =>
           /\ events = << "read", "urls valid", "path valid", "saved", "confirmed",
                          "installed" >>
           /\ urls # <<>> /\ \A i \in 1..Len(urls) : ReMatch(urls[i])
           /\ validate_path(Started, custom_nodes_path, NoFault).ok
           /\ FileAt(files, Append(Resolve(Started, PathOf(custom_nodes_path)).at, REPOS_FILE))
                  = << Join(urls, NL) >>
           /\ confirm \in { << "y" >>, << "Y" >> }
    /\ "saved" \in Chars(events) /\ pc # "confirm" /\ confirm \notin { << "y" >>, << "Y" >> } =>
           /\ pc = "exit" /\ exit_code = 0 /\ installed = <<>>
           /\ events[Len(events)] = "cancelled"
    /\ args.validate => files = files0 /\ installed = <<>> /\ pc # "save"

\* the user answered Y and the subprocess was started
C10_Witness ==
    /\ Started_procs # <<>>
    /\ confirm = << "Y" >>
    /\ files # files0

====
